---- MODULE Spec2Model ----
(***************************************************************************)
(* Order lifecycle and real-time notification engine of the chicken POS    *)
(* backend: pricing and validation (OrderService), order-number            *)
(* allocation, the order status machine with its history, and the store    *)
(* rooms of the socket layer.                                              *)
(*                                                                         *)
(* Every request handler is a process that takes one atomic step per       *)
(* awaited storage or gateway call; the code between two awaits runs       *)
(* without interruption (Node's event loop) and belongs to the step of the *)
(* await that precedes it.  Promise.all starts several storage calls that  *)
(* take effect in any order.                                               *)
(*                                                                         *)
(* Money is counted in hundredths of the currency unit; catalog prices and *)
(* coupon values are whole units, so value/100 of an amount is exact.      *)
(* Timestamps (Order.updatedAt) are a logical clock per order row: the     *)
(* n-th write of a row stamps it n.                                        *)
(***************************************************************************)
EXTENDS Integers, Sequences, FiniteSets, TLC

VARIABLES
    orders,     \* table orders: sequence of rows, the id is the index
    history,    \* table order_status_history: per order id, statuses in insertion order
    payments,   \* table payments: sequence of rows, the id is the index
    usedCount,  \* column coupons.usedCount, by coupon code
    procs,      \* the running request handlers and their local variables
    ops,        \* number of requests received so far
    rooms,      \* socket.io rooms store:<id>: the connections in each
    joining,    \* join-store requests whose verifyStoreAccess promise is pending
    denied,     \* connections that were sent the 'error' event for a store
    now,        \* the date-time of the run (position in the coupons' validity window)
    calc,       \* scratch cell of the pricing specifications: last pure computation
    memberPoints,     \* table member_points: sequence of rows in insertion order
    customerProfiles, \* table customer_profiles, by userId
    completions,      \* ids of the orders handleOrderCompletion was called with, in call order
    sent,       \* the last room event each connection sent for each store
    delivered   \* 'system-broadcast' events emitted: receiver, sender's tenant, room

vars == <<orders, history, payments, usedCount, procs, ops, rooms, joining, denied, now, calc,
          memberPoints, customerProfiles, completions, sent, delivered>>

-----------------------------------------------------------------------------
(* Bounds *)

NumProcs == 2
MaxOrders == 2
MaxOps == 3
MaxPayments == 1
NumConns == 2

Procs == 1..NumProcs
Conns == 1..NumConns

-----------------------------------------------------------------------------
(* Fixtures: tenants, stores, users, catalog, coupons *)

None == "none"

\* An optional number is << >> (null) or <<n>>.
Truthy(x) == x # << >> /\ x[1] # 0

Stores == {"S1", "S2"}

StoreTenant == [s \in Stores |-> IF s = "S1" THEN "T1" ELSE "T2"]

StoreStatus == [s \in Stores |-> "ACTIVE"]

Users ==
    { [id |-> "custA",  tenantId |-> "T1", roles |-> {"CUSTOMER"}],
      [id |-> "adminA", tenantId |-> "T1", roles |-> {"TENANT_ADMIN"}],
      [id |-> "adminB", tenantId |-> "T2", roles |-> {"TENANT_ADMIN"}] }

\* The customer's profile as the seed creates it; staff users have none.
SeededProfiles == [u \in {"custA"} |-> [totalSpent |-> 0, loyaltyTier |-> "BRONZE"]]

\* socket.data.user.tenantId of each connection
ConnTenant == [c \in Conns |-> IF c = 1 THEN "T1" ELSE "T2"]

Products ==
    [ P1 |-> [storeId |-> "S1", isAvailable |-> TRUE, basePrice |-> 6000,
              variants |-> [V1 |-> 8000],
              addons |-> [A1 |-> [price |-> 1000, maxQuantity |-> 2]],
              inventory |-> <<5>>],
      P2 |-> [storeId |-> "S1", isAvailable |-> FALSE, basePrice |-> 5000,
              variants |-> [V2 |-> 5500],
              addons |-> [A2 |-> [price |-> 500, maxQuantity |-> 1]],
              inventory |-> << >>],
      P3 |-> [storeId |-> "S2", isAvailable |-> TRUE, basePrice |-> 6000,
              variants |-> [V3 |-> 7000],
              addons |-> [A3 |-> [price |-> 1000, maxQuantity |-> 1]],
              inventory |-> << >>] ]

Coupons ==
    [ TEN   |-> [storeId |-> "S1", type |-> "PERCENTAGE", value |-> 10,
                 minOrderAmount |-> << >>, maxDiscount |-> << >>, usageLimit |-> <<1>>,
                 isActive |-> TRUE, validFrom |-> 1, validUntil |-> 3],
      FIFTY |-> [storeId |-> "S1", type |-> "FIXED_AMOUNT", value |-> 5000,
                 minOrderAmount |-> <<10000>>, maxDiscount |-> <<3000>>, usageLimit |-> << >>,
                 isActive |-> TRUE, validFrom |-> 1, validUntil |-> 3],
      SHIP  |-> [storeId |-> "S2", type |-> "FREE_SHIPPING", value |-> 0,
                 minOrderAmount |-> << >>, maxDiscount |-> << >>, usageLimit |-> <<2>>,
                 isActive |-> TRUE, validFrom |-> 1, validUntil |-> 2] ]

-----------------------------------------------------------------------------
(* OrderService: pure computations *)

Min(a, b) == IF a < b THEN a ELSE b

Max(a, b) == IF a > b THEN a ELSE b

Reject(e) == [ok |-> FALSE, error |-> e]

\* Mutant: an add-on is priced once whatever its quantity.
RECURSIVE ValidateAddonsOnce(_, _, _, _, _)
ValidateAddonsOnce(product, addons, i, unitPrice, validated) ==
    IF i > Len(addons)
    THEN [ok |-> TRUE, unitPrice |-> unitPrice, addons |-> validated]
    ELSE LET addon == addons[i] IN
         IF addon.addonId \notin DOMAIN product.addons
         THEN Reject("InvalidAddon")
         ELSE LET productAddon == product.addons[addon.addonId] IN
              IF addon.quantity > productAddon.maxQuantity
              THEN Reject("AddonLimitExceeded")
              ELSE ValidateAddonsOnce(product, addons, i + 1,
                       unitPrice + productAddon.price,
                       Append(validated, [addonId |-> addon.addonId,
                                          quantity |-> addon.quantity,
                                          price |-> productAddon.price]))

\* validateOrderItems, the add-on loop of one line: from add-on i on, with the
\* unit price and the validated add-ons accumulated so far.
RECURSIVE ValidateAddons(_, _, _, _, _)
ValidateAddons(product, addons, i, unitPrice, validated) ==
    IF i > Len(addons)
    THEN [ok |-> TRUE, unitPrice |-> unitPrice, addons |-> validated]
    ELSE LET addon == addons[i] IN
         IF addon.addonId \notin DOMAIN product.addons
         THEN Reject("InvalidAddon")
         ELSE LET productAddon == product.addons[addon.addonId] IN
              IF addon.quantity > productAddon.maxQuantity
              THEN Reject("AddonLimitExceeded")
              ELSE ValidateAddons(product, addons, i + 1,
                       unitPrice + productAddon.price * addon.quantity,
                       Append(validated, [addonId |-> addon.addonId,
                                          quantity |-> addon.quantity,
                                          price |-> productAddon.price]))

\* Mutant: the stock is not looked at.
ValidateLineAnyStock(item, storeId) ==
    IF ~ ( /\ item.productId \in DOMAIN Products
           /\ Products[item.productId].storeId = storeId
           /\ Products[item.productId].isAvailable )
    THEN Reject("ProductUnavailable")
    ELSE LET product == Products[item.productId] IN
         IF FALSE
         THEN Reject("InsufficientStock")
         ELSE IF item.variantId # None /\ item.variantId \notin DOMAIN product.variants
         THEN Reject("InvalidVariant")
         ELSE LET base == IF item.variantId # None
                          THEN product.variants[item.variantId]
                          ELSE product.basePrice
                  r == ValidateAddons(product, item.addons, 1, base, << >>)
              IN IF ~r.ok THEN r
                 ELSE [ok |-> TRUE,
                       item |-> [productId |-> item.productId,
                                 variantId |-> item.variantId,
                                 quantity |-> item.quantity,
                                 unitPrice |-> r.unitPrice,
                                 totalPrice |-> r.unitPrice * item.quantity,
                                 addons |-> r.addons]]

\* validateOrderItems, the body of the loop for one requested line.
ValidateLine(item, storeId) ==
    IF ~ ( /\ item.productId \in DOMAIN Products
           /\ Products[item.productId].storeId = storeId
           /\ Products[item.productId].isAvailable )
    THEN Reject("ProductUnavailable")
    ELSE LET product == Products[item.productId] IN
         IF product.inventory # << >> /\ product.inventory[1] < item.quantity
         THEN Reject("InsufficientStock")
         ELSE IF item.variantId # None /\ item.variantId \notin DOMAIN product.variants
         THEN Reject("InvalidVariant")
         ELSE LET base == IF item.variantId # None
                          THEN product.variants[item.variantId]
                          ELSE product.basePrice
                  r == ValidateAddons(product, item.addons, 1, base, << >>)
              IN IF ~r.ok THEN r
                 ELSE [ok |-> TRUE,
                       item |-> [productId |-> item.productId,
                                 variantId |-> item.variantId,
                                 quantity |-> item.quantity,
                                 unitPrice |-> r.unitPrice,
                                 totalPrice |-> r.unitPrice * item.quantity,
                                 addons |-> r.addons]]

RECURSIVE ValidateFrom(_, _, _, _)
ValidateFrom(items, storeId, i, validatedItems) ==
    IF i > Len(items)
    THEN [ok |-> TRUE, items |-> validatedItems]
    ELSE LET r == ValidateLine(items[i], storeId) IN
         IF ~r.ok THEN r
         ELSE ValidateFrom(items, storeId, i + 1, Append(validatedItems, r.item))

validateOrderItems(items, storeId) == ValidateFrom(items, storeId, 1, << >>)

RECURSIVE SumTotalPrice(_)
SumTotalPrice(items) ==
    IF items = << >> THEN 0 ELSE items[1].totalPrice + SumTotalPrice(Tail(items))

\* validateCoupon over a coupon table: the row read by findFirst, then the
\* two checks.
validateCouponOn(table, couponCode, storeId, orderAmount, used, at) ==
    IF ~ ( /\ couponCode \in DOMAIN table
           /\ table[couponCode].storeId = storeId
           /\ table[couponCode].isActive
           /\ table[couponCode].validFrom <= at
           /\ table[couponCode].validUntil >= at )
    THEN Reject("CouponInvalid")
    ELSE LET coupon == table[couponCode] IN
         IF Truthy(coupon.usageLimit) /\ used[couponCode] >= coupon.usageLimit[1]
         THEN Reject("CouponLimitReached")
         ELSE IF Truthy(coupon.minOrderAmount) /\ orderAmount < coupon.minOrderAmount[1]
         THEN Reject("MinimumNotMet")
         ELSE [ok |-> TRUE, coupon |-> coupon]

\* validateCoupon against the coupons of the fixture.
validateCoupon(couponCode, storeId, orderAmount, used, at) ==
    validateCouponOn(Coupons, couponCode, storeId, orderAmount, used, at)

calculateDiscount(coupon, orderAmount) ==
    LET raw == CASE coupon.type = "PERCENTAGE"   -> (orderAmount * coupon.value) \div 100
                 [] coupon.type = "FIXED_AMOUNT" -> coupon.value
                 [] OTHER                        -> 0
        discount == IF Truthy(coupon.maxDiscount) /\ raw > coupon.maxDiscount[1]
                    THEN coupon.maxDiscount[1]
                    ELSE raw
    IN Min(discount, orderAmount)

RECURSIVE SumQuantity(_)
SumQuantity(items) ==
    IF items = << >> THEN 0 ELSE items[1].quantity + SumQuantity(Tail(items))

\* Mutant: a line with add-ons costs 2 minutes.
calculateEstimatedTimeFlat(items) ==
    LET baseTime == 10
        totalQuantity == SumQuantity(items)
        additionalTime == Max(0, (totalQuantity - 1) * 2)
        complexItems == {i \in 1..Len(items) : Len(items[i].addons) > 0}
        complexityTime == Cardinality(complexItems) * 2
    IN baseTime + additionalTime + complexityTime

calculateEstimatedTime(items) ==
    LET baseTime == 10
        totalQuantity == SumQuantity(items)
        additionalTime == Max(0, (totalQuantity - 1) * 2)
        complexItems == {i \in 1..Len(items) : Len(items[i].addons) > 0}
        complexityTime == Cardinality(complexItems) * 3
    IN baseTime + additionalTime + complexityTime

Statuses == {"PENDING", "CONFIRMED", "PREPARING", "READY", "COMPLETED", "CANCELLED"}

validTransitions ==
    [ PENDING   |-> {"CONFIRMED", "CANCELLED"},
      CONFIRMED |-> {"PREPARING", "CANCELLED"},
      PREPARING |-> {"READY", "CANCELLED"},
      READY     |-> {"COMPLETED"},
      COMPLETED |-> {},
      CANCELLED |-> {} ]

\* Mutant: READY may also be cancelled.
validateStatusTransitionLax(currentStatus, newStatus) ==
    IF currentStatus \in DOMAIN validTransitions
    THEN \/ newStatus \in validTransitions[currentStatus]
         \/ currentStatus = "READY" /\ newStatus = "CANCELLED"
    ELSE FALSE

validateStatusTransition(currentStatus, newStatus) ==
    IF currentStatus \in DOMAIN validTransitions
    THEN newStatus \in validTransitions[currentStatus]
    ELSE FALSE

\* generateOrderNumber: <date><count of the store's orders of the day + 1>; the
\* run stays within one day, so the date prefix is the same for every number.
generateOrderNumber(storeId, table) ==
    Cardinality({i \in 1..Len(table) : table[i].storeId = storeId}) + 1

\* Mutant: any authenticated user passes.
requireRolesAny(requiredRoles, user) == user.roles # {}

requireRoles(requiredRoles, user) == (requiredRoles \cap user.roles) # {}

-----------------------------------------------------------------------------
(* Request handlers *)

Idle == [pc |-> "idle"]

Running(p) == procs[p].pc \notin {"idle", "done"}

\* A request is taken by the first free handler slot, while the run's budget allows.
Accepts(p) ==
    /\ ~Running(p)
    /\ \A q \in Procs : q < p => Running(q)
    /\ ops < MaxOps

\* The locals every handler has: the order it works on, the status it requests,
\* the status and the stamp of the row it read, whether it has written the status,
\* whether handleOrderCompletion caught an error.
Request(op, pc) ==
    [pc |-> pc, op |-> op, code |-> 0, order |-> 0, status |-> None,
     seen |-> None, seenAt |-> 0, wrote |-> FALSE, failed |-> FALSE]

\* The handler answers (res.json, res.redirect, next(error) or the 'error' event)
\* with code c and its other locals go out of scope.
Done(req, c) ==
    [pc |-> "done", op |-> req.op, code |-> c, order |-> req.order, status |-> req.status,
     seen |-> req.seen, seenAt |-> req.seenAt, wrote |-> req.wrote, failed |-> req.failed]

\* One call of a Promise.all has taken effect; the handler answers after the last.
Settle(req, call, c) ==
    IF req.todo = {call} THEN Done(req, c) ELSE [req EXCEPT !.todo = @ \ {call}]

\* Rows that running handlers may still insert.
Creating == {p \in Procs : Running(p) /\ procs[p].op \in {"create", "pos"}}

Paying == {p \in Procs : /\ Running(p)
                         /\ \/ procs[p].op = "request"
                            \/ procs[p].op = "pos" /\ procs[p].paymentMethod = "CASH"}

Touch(row, fields) == [f \in DOMAIN row |->
                          IF f = "updatedAt" THEN row.updatedAt + 1
                          ELSE IF f \in DOMAIN fields THEN fields[f] ELSE row[f]]

\* prisma.order.update({where: {id}, data: {...fields, updatedAt: new Date()}})
OrderUpdate(table, id, fields) == [table EXCEPT ![id] = Touch(@, fields)]

\* prisma.orderStatusHistory.create({data: {orderId, status}})
HistoryCreate(table, orderId, status) == [table EXCEPT ![orderId] = Append(@, status)]

(* POST /api/orders *)

\* Mutant: the coupon is counted as used when it is presented.
CreateStartCounting(p, user, storeId, items, couponCode) ==
    /\ Accepts(p)
    /\ Len(orders) + Cardinality(Creating) < MaxOrders
    /\ LET req == [Request("create", "generate") EXCEPT !.status = "PENDING"] @@
                  [storeId |-> storeId, customerId |-> user.id, items |-> << >>,
                   totalAmount |-> 0, discountAmount |-> 0, finalAmount |-> 0,
                   coupon |-> None, orderNumber |-> 0, paymentMethod |-> None]
           v == validateOrderItems(items, storeId)
           totalAmount == SumTotalPrice(v.items)
           c == validateCoupon(couponCode, storeId, totalAmount, usedCount, now)
           discountAmount == IF couponCode # None
                             THEN calculateDiscount(c.coupon, totalAmount) ELSE 0
       IN procs' = [procs EXCEPT ![p] =
            IF ~(StoreTenant[storeId] = user.tenantId /\ StoreStatus[storeId] = "ACTIVE")
            THEN Done(req, 404)
            ELSE IF ~v.ok
            THEN Done(req, 400)
            ELSE IF couponCode # None /\ ~c.ok
            THEN Done(req, 400)
            ELSE [req EXCEPT !.items = v.items, !.totalAmount = totalAmount,
                             !.discountAmount = discountAmount,
                             !.finalAmount = totalAmount - discountAmount,
                             !.coupon = couponCode]]
    /\ usedCount' = [c \in DOMAIN usedCount |->
                       IF c = couponCode THEN usedCount[c] + 1 ELSE usedCount[c]]
    /\ UNCHANGED <<orders, history, payments, rooms, joining, denied, now, calc,
                 memberPoints, customerProfiles, completions,
                 sent, delivered>>
    /\ ops' = ops + 1

CreateStart(p, user, storeId, items, couponCode) ==
    /\ Accepts(p)
    /\ Len(orders) + Cardinality(Creating) < MaxOrders
    /\ LET req == [Request("create", "generate") EXCEPT !.status = "PENDING"] @@
                  [storeId |-> storeId, customerId |-> user.id, items |-> << >>,
                   totalAmount |-> 0, discountAmount |-> 0, finalAmount |-> 0,
                   coupon |-> None, orderNumber |-> 0, paymentMethod |-> None]
           v == validateOrderItems(items, storeId)
           totalAmount == SumTotalPrice(v.items)
           c == validateCoupon(couponCode, storeId, totalAmount, usedCount, now)
           discountAmount == IF couponCode # None
                             THEN calculateDiscount(c.coupon, totalAmount) ELSE 0
       IN procs' = [procs EXCEPT ![p] =
            IF ~(StoreTenant[storeId] = user.tenantId /\ StoreStatus[storeId] = "ACTIVE")
            THEN Done(req, 404)
            ELSE IF ~v.ok
            THEN Done(req, 400)
            ELSE IF couponCode # None /\ ~c.ok
            THEN Done(req, 400)
            ELSE [req EXCEPT !.items = v.items, !.totalAmount = totalAmount,
                             !.discountAmount = discountAmount,
                             !.finalAmount = totalAmount - discountAmount,
                             !.coupon = couponCode]]
    /\ UNCHANGED <<orders, history, payments, usedCount, rooms, joining, denied, now, calc,
                 memberPoints, customerProfiles, completions,
                 sent, delivered>>
    /\ ops' = ops + 1

(* POST /api/pos/orders *)

PosStart(p, user, storeId, customerId, items, paymentMethod) ==
    /\ Accepts(p)
    /\ Len(orders) + Cardinality(Creating) < MaxOrders
    /\ paymentMethod = "CASH" => Len(payments) + Cardinality(Paying) < MaxPayments
    /\ LET req == [Request("pos", "generate") EXCEPT !.status = "CONFIRMED"] @@
                  [storeId |-> storeId, customerId |-> customerId, items |-> << >>,
                   totalAmount |-> 0, discountAmount |-> 0, finalAmount |-> 0,
                   coupon |-> None, orderNumber |-> 0, paymentMethod |-> paymentMethod]
           v == validateOrderItems(items, storeId)
           totalAmount == SumTotalPrice(v.items)
       IN procs' = [procs EXCEPT ![p] =
            IF ~requireRoles({"TENANT_ADMIN", "STORE_MANAGER", "STAFF"}, user)
            THEN Done(req, 403)
            ELSE IF ~(StoreTenant[storeId] = user.tenantId /\ StoreStatus[storeId] = "ACTIVE")
            THEN Done(req, 404)
            ELSE IF ~v.ok
            THEN Done(req, 400)
            ELSE [req EXCEPT !.items = v.items, !.totalAmount = totalAmount,
                             !.finalAmount = totalAmount]]
    /\ UNCHANGED <<orders, history, payments, usedCount, rooms, joining, denied, now, calc,
                 memberPoints, customerProfiles, completions,
                 sent, delivered>>
    /\ ops' = ops + 1

(* Steps shared by the two order creations *)

CreateGenerate(p) ==
    /\ procs[p].pc = "generate"
    /\ procs' = [procs EXCEPT ![p].pc = "insert",
                              ![p].orderNumber = generateOrderNumber(procs[p].storeId, orders)]
    /\ UNCHANGED <<orders, history, payments, usedCount, ops, rooms, joining, denied, now, calc,
                 memberPoints, customerProfiles, completions,
                 sent, delivered>>

\* prisma.order.create: the unique index on orderNumber rejects a duplicate.
CreateInsert(p) ==
    /\ procs[p].pc = "insert"
    /\ LET req == procs[p]
           cash == req.op = "pos" /\ req.paymentMethod = "CASH"
           row == [orderNumber |-> req.orderNumber, storeId |-> req.storeId,
                   customerId |-> req.customerId, status |-> req.status,
                   totalAmount |-> req.totalAmount, discountAmount |-> req.discountAmount,
                   finalAmount |-> req.finalAmount,
                   paymentStatus |-> IF cash THEN "COMPLETED" ELSE "PENDING",
                   estimatedTime |-> calculateEstimatedTime(req.items),
                   items |-> req.items, updatedAt |-> 1]
       IN IF \E i \in 1..Len(orders) : orders[i].orderNumber = req.orderNumber
          THEN /\ procs' = [procs EXCEPT ![p] = Done(req, 500)]
               /\ UNCHANGED <<orders, history>>
          ELSE /\ orders' = Append(orders, row)
               /\ history' = Append(history, << >>)
               /\ procs' = [procs EXCEPT ![p].order = Len(orders) + 1,
                                         ![p].wrote = TRUE,
                                         ![p].pc = IF cash THEN "payment" ELSE "history"]
    /\ UNCHANGED <<payments, usedCount, ops, rooms, joining, denied, now, calc,
                 memberPoints, customerProfiles, completions,
                 sent, delivered>>

\* POS, cash: prisma.payment.create({data: {orderId, amount, status: 'COMPLETED'}})
PosPayment(p) ==
    /\ procs[p].pc = "payment"
    /\ payments' = Append(payments, [orderId |-> procs[p].order, status |-> "COMPLETED",
                                     amount |-> procs[p].totalAmount, refunded |-> FALSE])
    /\ procs' = [procs EXCEPT ![p].pc = "history"]
    /\ UNCHANGED <<orders, history, usedCount, ops, rooms, joining, denied, now, calc,
                 memberPoints, customerProfiles, completions,
                 sent, delivered>>

CreateHistory(p) ==
    /\ procs[p].pc = "history"
    /\ procs[p].op \in {"create", "pos"}
    /\ history' = HistoryCreate(history, procs[p].order, procs[p].status)
    /\ procs' = [procs EXCEPT ![p] =
                    IF procs[p].coupon # None THEN [@ EXCEPT !.pc = "coupon"]
                    ELSE Done(@, 201)]
    /\ UNCHANGED <<orders, payments, usedCount, ops, rooms, joining, denied, now, calc,
                 memberPoints, customerProfiles, completions,
                 sent, delivered>>

\* prisma.coupon.update({data: {usedCount: {increment: 1}}})
CreateCoupon(p) ==
    /\ procs[p].pc = "coupon"
    /\ usedCount' = [usedCount EXCEPT ![procs[p].coupon] = @ + 1]
    /\ procs' = [procs EXCEPT ![p] = Done(@, 201)]
    /\ UNCHANGED <<orders, history, payments, ops, rooms, joining, denied, now, calc,
                 memberPoints, customerProfiles, completions,
                 sent, delivered>>

(* PATCH /api/orders/:id/status *)

PatchStatuses == {"CONFIRMED", "PREPARING", "READY", "COMPLETED", "CANCELLED"}

PatchFind(p, user, id, status) ==
    /\ Accepts(p)
    /\ LET req == [Request("patch", "update") EXCEPT !.order = id, !.status = status]
           found == id <= Len(orders) /\ StoreTenant[orders[id].storeId] = user.tenantId
           read == [req EXCEPT !.seen = orders[id].status, !.seenAt = orders[id].updatedAt]
       IN procs' = [procs EXCEPT ![p] =
            IF ~requireRoles({"TENANT_ADMIN", "STORE_MANAGER", "STAFF"}, user)
            THEN Done(req, 403)
            ELSE IF status \notin PatchStatuses
            THEN Done(req, 400)
            ELSE IF ~found
            THEN Done(req, 404)
            ELSE IF ~validateStatusTransition(orders[id].status, status)
            THEN Done(read, 400)
            ELSE read]
    /\ UNCHANGED <<orders, history, payments, usedCount, rooms, joining, denied, now, calc,
                 memberPoints, customerProfiles, completions,
                 sent, delivered>>
    /\ ops' = ops + 1

PatchUpdate(p) ==
    /\ procs[p].pc = "update"
    /\ procs[p].op = "patch"
    /\ orders' = OrderUpdate(orders, procs[p].order, [status |-> procs[p].status])
    /\ procs' = [procs EXCEPT ![p].pc = "history", ![p].wrote = TRUE]
    /\ UNCHANGED <<history, payments, usedCount, ops, rooms, joining, denied, now, calc,
                 memberPoints, customerProfiles, completions,
                 sent, delivered>>

\* Mutant: the handler answers without recording the change.
PatchHistoryUnrecorded(p) ==
    /\ procs[p].pc = "history"
    /\ procs[p].op = "patch"
    /\ procs' = [procs EXCEPT ![p] = Done(@, 200)]
    /\ UNCHANGED <<orders, history, payments, usedCount, ops, rooms, joining, denied, now, calc,
                 memberPoints, customerProfiles, completions,
                 sent, delivered>>

\* The history row, the notifications, and for COMPLETED the call of
\* handleOrderCompletion(order) with the row read by findFirst, which carries no
\* items (the query includes store and customer only).
PatchHistory(p) ==
    /\ procs[p].pc = "history"
    /\ procs[p].op = "patch"
    /\ history' = HistoryCreate(history, procs[p].order, procs[p].status)
    /\ IF procs[p].status = "COMPLETED"
       THEN /\ procs' = [procs EXCEPT ![p] =
                   [@ EXCEPT !.pc = "points"] @@
                   [arg |-> [id |-> procs[p].order,
                             customerId |-> orders[procs[p].order].customerId,
                             finalAmount |-> orders[procs[p].order].finalAmount,
                             hasItems |-> FALSE]]]
            /\ completions' = Append(completions, procs[p].order)
       ELSE /\ procs' = [procs EXCEPT ![p] = Done(@, 200)]
            /\ UNCHANGED completions
    /\ UNCHANGED <<orders, payments, usedCount, ops, rooms, joining, denied, now, calc,
                 memberPoints, customerProfiles,
                 sent, delivered>>

(* OrderService.handleOrderCompletion *)

\* Columns of member_points a create must give, and those it may give.
MemberPointRequired == {"userId", "type", "amount", "description"}

MemberPointOptional == {"id", "expiresAt", "createdAt"}

\* prisma.memberPoint.create({data}): the client rejects data that names a field
\* the model does not have or that lacks a required one.
MemberPointCreate(table, data) ==
    IF /\ MemberPointRequired \subseteq DOMAIN data
       /\ DOMAIN data \subseteq MemberPointRequired \cup MemberPointOptional
    THEN [ok |-> TRUE, table |-> Append(table, data)]
    ELSE [ok |-> FALSE, table |-> table]

calculateLoyaltyTier(totalSpent) ==
    IF totalSpent >= 1000000 THEN "PLATINUM"
    ELSE IF totalSpent >= 500000 THEN "GOLD"
    ELSE IF totalSpent >= 100000 THEN "SILVER"
    ELSE "BRONZE"

\* Mutant: an error of the processor reaches the caller.
FinishSurfaced(req, failed) ==
    Done([req EXCEPT !.failed = failed], IF failed THEN 500 ELSE 200)

\* handleOrderCompletion returns: normally, or from its catch block.
Finish(req, failed) == Done([req EXCEPT !.failed = failed], 200)

\* A direct call handleOrderCompletion(order), as the service's tests make it.
CompleteCall(p, order) ==
    /\ Accepts(p)
    /\ procs' = [procs EXCEPT ![p] =
          [Request("complete", "points") EXCEPT !.order = order.id, !.status = "COMPLETED"]
          @@ [arg |-> order]]
    /\ completions' = Append(completions, order.id)
    /\ ops' = ops + 1
    /\ UNCHANGED <<orders, history, payments, usedCount, rooms, joining, denied, now, calc,
                   memberPoints, customerProfiles,
                   sent, delivered>>

\* updateMemberPoints: Math.floor(orderAmount / 10) points, written when positive.
CompletionPoints(p) ==
    /\ procs[p].pc = "points"
    /\ LET points == procs[p].arg.finalAmount \div 1000
           r == MemberPointCreate(memberPoints,
                   [userId |-> procs[p].arg.customerId, points |-> points, type |-> "EARN",
                    description |-> "order points"])
       IN IF points > 0
          THEN /\ memberPoints' = r.table
               /\ procs' = [procs EXCEPT ![p] =
                      IF r.ok THEN [@ EXCEPT !.pc = "stats"] ELSE Finish(@, TRUE)]
          ELSE /\ UNCHANGED memberPoints
               /\ procs' = [procs EXCEPT ![p].pc = "stats"]
    /\ UNCHANGED <<orders, history, payments, usedCount, ops, rooms, joining, denied, now, calc,
                   customerProfiles, completions,
                   sent, delivered>>

\* updateProductSalesStats: for (const item of order.items) throws when the
\* order has no items property.
CompletionStats(p) ==
    /\ procs[p].pc = "stats"
    /\ procs' = [procs EXCEPT ![p] =
          IF procs[p].arg.hasItems THEN [@ EXCEPT !.pc = "spend"] ELSE Finish(@, TRUE)]
    /\ UNCHANGED <<orders, history, payments, usedCount, ops, rooms, joining, denied, now, calc,
                   memberPoints, customerProfiles, completions,
                   sent, delivered>>

\* updateCustomerSpending: customerProfile.updateMany increments totalSpent.
CompletionSpend(p) ==
    /\ procs[p].pc = "spend"
    /\ customerProfiles' =
          [u \in DOMAIN customerProfiles |->
              IF u = procs[p].arg.customerId
              THEN [customerProfiles[u] EXCEPT !.totalSpent = @ + procs[p].arg.finalAmount]
              ELSE customerProfiles[u]]
    /\ procs' = [procs EXCEPT ![p].pc = "read"]
    /\ UNCHANGED <<orders, history, payments, usedCount, ops, rooms, joining, denied, now, calc,
                   memberPoints, completions,
                   sent, delivered>>

\* updateCustomerSpending: customerProfile.findFirst and the tier it gives.
CompletionRead(p) ==
    /\ procs[p].pc = "read"
    /\ LET u == procs[p].arg.customerId
       IN procs' = [procs EXCEPT ![p] =
            IF u \in DOMAIN customerProfiles
               /\ calculateLoyaltyTier(customerProfiles[u].totalSpent)
                     # customerProfiles[u].loyaltyTier
            THEN [@ EXCEPT !.pc = "tier"] @@
                 [newTier |-> calculateLoyaltyTier(customerProfiles[u].totalSpent)]
            ELSE Finish(@, FALSE)]
    /\ UNCHANGED <<orders, history, payments, usedCount, ops, rooms, joining, denied, now, calc,
                   memberPoints, customerProfiles, completions,
                   sent, delivered>>

\* updateCustomerSpending: customerProfile.update({data: {loyaltyTier: newTier}}).
CompletionTier(p) ==
    /\ procs[p].pc = "tier"
    /\ customerProfiles' = [customerProfiles EXCEPT
          ![procs[p].arg.customerId].loyaltyTier = procs[p].newTier]
    /\ procs' = [procs EXCEPT ![p] = Finish(@, FALSE)]
    /\ UNCHANGED <<orders, history, payments, usedCount, ops, rooms, joining, denied, now, calc,
                   memberPoints, completions,
                   sent, delivered>>

(* POST /api/orders/:id/cancel *)

\* Mutant: a READY order may be cancelled as well.
CancelFindReady(p, user, id) ==
    /\ Accepts(p)
    /\ LET req == [Request("cancel", "all") EXCEPT !.order = id, !.status = "CANCELLED"] @@
                  [todo |-> {"update", "history"}]
           found == /\ id <= Len(orders)
                    /\ \/ orders[id].customerId = user.id
                       \/ StoreTenant[orders[id].storeId] = user.tenantId
           read == [req EXCEPT !.seen = orders[id].status, !.seenAt = orders[id].updatedAt]
       IN procs' = [procs EXCEPT ![p] =
            IF ~found
            THEN Done(req, 404)
            ELSE IF orders[id].status \notin {"PENDING", "CONFIRMED", "PREPARING", "READY"}
            THEN Done(read, 400)
            ELSE read]
    /\ UNCHANGED <<orders, history, payments, usedCount, rooms, joining, denied, now, calc,
                 memberPoints, customerProfiles, completions,
                 sent, delivered>>
    /\ ops' = ops + 1

CancelFind(p, user, id) ==
    /\ Accepts(p)
    /\ LET req == [Request("cancel", "all") EXCEPT !.order = id, !.status = "CANCELLED"] @@
                  [todo |-> {"update", "history"}]
           found == /\ id <= Len(orders)
                    /\ \/ orders[id].customerId = user.id
                       \/ StoreTenant[orders[id].storeId] = user.tenantId
           read == [req EXCEPT !.seen = orders[id].status, !.seenAt = orders[id].updatedAt]
       IN procs' = [procs EXCEPT ![p] =
            IF ~found
            THEN Done(req, 404)
            ELSE IF orders[id].status \notin {"PENDING", "CONFIRMED", "PREPARING"}
            THEN Done(read, 400)
            ELSE read]
    /\ UNCHANGED <<orders, history, payments, usedCount, rooms, joining, denied, now, calc,
                 memberPoints, customerProfiles, completions,
                 sent, delivered>>
    /\ ops' = ops + 1

\* Mutant: the cancellation marks the order as refunded.
CancelUpdateRefunding(p) ==
    /\ procs[p].pc = "all"
    /\ procs[p].op = "cancel"
    /\ "update" \in procs[p].todo
    /\ orders' = OrderUpdate(orders, procs[p].order, [status |-> "CANCELLED", paymentStatus |-> "REFUNDED"])
    /\ procs' = [procs EXCEPT ![p] = Settle([@ EXCEPT !.wrote = TRUE], "update", 200)]
    /\ UNCHANGED <<history, payments, usedCount, ops, rooms, joining, denied, now, calc,
                 memberPoints, customerProfiles, completions,
                 sent, delivered>>

CancelUpdate(p) ==
    /\ procs[p].pc = "all"
    /\ procs[p].op = "cancel"
    /\ "update" \in procs[p].todo
    /\ orders' = OrderUpdate(orders, procs[p].order, [status |-> "CANCELLED"])
    /\ procs' = [procs EXCEPT ![p] = Settle([@ EXCEPT !.wrote = TRUE], "update", 200)]
    /\ UNCHANGED <<history, payments, usedCount, ops, rooms, joining, denied, now, calc,
                 memberPoints, customerProfiles, completions,
                 sent, delivered>>

CancelHistory(p) ==
    /\ procs[p].pc = "all"
    /\ procs[p].op = "cancel"
    /\ "history" \in procs[p].todo
    /\ history' = HistoryCreate(history, procs[p].order, "CANCELLED")
    /\ procs' = [procs EXCEPT ![p] = Settle(@, "history", 200)]
    /\ UNCHANGED <<orders, payments, usedCount, ops, rooms, joining, denied, now, calc,
                 memberPoints, customerProfiles, completions,
                 sent, delivered>>

(* PATCH /api/orders/batch-status *)

BatchFind(p, user, orderIds, status) ==
    /\ Accepts(p)
    /\ LET req == [Request("batch", "all") EXCEPT !.status = status] @@
                  [orderIds |-> orderIds, todo |-> {"update", "history"}]
           found == {id \in orderIds : /\ id <= Len(orders)
                                       /\ StoreTenant[orders[id].storeId] = user.tenantId}
       IN procs' = [procs EXCEPT ![p] =
            IF ~requireRoles({"TENANT_ADMIN", "STORE_MANAGER"}, user)
            THEN Done(req, 403)
            ELSE IF status \notin PatchStatuses
            THEN Done(req, 400)
            ELSE IF Cardinality(found) # Cardinality(orderIds)
            THEN Done(req, 404)
            ELSE req]
    /\ UNCHANGED <<orders, history, payments, usedCount, rooms, joining, denied, now, calc,
                 memberPoints, customerProfiles, completions,
                 sent, delivered>>
    /\ ops' = ops + 1

\* prisma.order.updateMany({where: {id: {in: orderIds}}, data: {status, updatedAt}})
BatchUpdate(p) ==
    /\ procs[p].pc = "all"
    /\ procs[p].op = "batch"
    /\ "update" \in procs[p].todo
    /\ orders' = [id \in DOMAIN orders |->
                    IF id \in procs[p].orderIds
                    THEN Touch(orders[id], [status |-> procs[p].status])
                    ELSE orders[id]]
    /\ procs' = [procs EXCEPT ![p] = Settle([@ EXCEPT !.wrote = TRUE], "update", 200)]
    /\ UNCHANGED <<history, payments, usedCount, ops, rooms, joining, denied, now, calc,
                 memberPoints, customerProfiles, completions,
                 sent, delivered>>

\* prisma.orderStatusHistory.createMany({data: orderIds.map(...)})
BatchHistory(p) ==
    /\ procs[p].pc = "all"
    /\ procs[p].op = "batch"
    /\ "history" \in procs[p].todo
    /\ history' = [id \in DOMAIN history |->
                    IF id \in procs[p].orderIds
                    THEN Append(history[id], procs[p].status)
                    ELSE history[id]]
    /\ procs' = [procs EXCEPT ![p] = Settle(@, "history", 200)]
    /\ UNCHANGED <<orders, payments, usedCount, ops, rooms, joining, denied, now, calc,
                 memberPoints, customerProfiles, completions,
                 sent, delivered>>

(* socket 'update-order-status' (SocketManager.setupOrderHandlers) *)

\* The role check and the order update it awaits first; an unknown order id makes
\* the update throw, which the handler answers with the 'error' event.
SocketUpdate(p, user, orderId, status) ==
    /\ Accepts(p)
    /\ LET req == [Request("socket", "history") EXCEPT !.order = orderId, !.status = status]
       IN IF ~requireRoles({"TENANT_ADMIN", "STORE_MANAGER", "STAFF"}, user)
          THEN /\ procs' = [procs EXCEPT ![p] = Done(req, 403)]
               /\ UNCHANGED orders
          ELSE IF orderId > Len(orders)
          THEN /\ procs' = [procs EXCEPT ![p] = Done(req, 500)]
               /\ UNCHANGED orders
          ELSE /\ procs' = [procs EXCEPT ![p] = [req EXCEPT !.wrote = TRUE]]
               /\ orders' = OrderUpdate(orders, orderId, [status |-> status])
    /\ UNCHANGED <<history, payments, usedCount, rooms, joining, denied, now, calc,
                 memberPoints, customerProfiles, completions,
                 sent, delivered>>
    /\ ops' = ops + 1

SocketHistory(p) ==
    /\ procs[p].pc = "history"
    /\ procs[p].op = "socket"
    /\ history' = HistoryCreate(history, procs[p].order, procs[p].status)
    /\ procs' = [procs EXCEPT ![p] = Done(@, 200)]
    /\ UNCHANGED <<orders, payments, usedCount, ops, rooms, joining, denied, now, calc,
                 memberPoints, customerProfiles, completions,
                 sent, delivered>>

(* POST /api/payments/line-pay/request *)

\* amountMatches: whether the amount of the request is the order's finalAmount.
RequestFind(p, user, orderId, amountMatches) ==
    /\ Accepts(p)
    /\ Len(payments) + Cardinality(Paying) < MaxPayments
    /\ LET req == [Request("request", "gateway") EXCEPT !.order = orderId]
           found == /\ orderId <= Len(orders)
                    /\ orders[orderId].customerId = user.id
                    /\ orders[orderId].paymentStatus = "PENDING"
       IN procs' = [procs EXCEPT ![p] =
            IF ~found
            THEN Done(req, 404)
            ELSE IF StoreTenant[orders[orderId].storeId] # user.tenantId
            THEN Done(req, 403)
            ELSE IF ~amountMatches
            THEN Done(req, 400)
            ELSE req]
    /\ UNCHANGED <<orders, history, payments, usedCount, rooms, joining, denied, now, calc,
                 memberPoints, customerProfiles, completions,
                 sent, delivered>>
    /\ ops' = ops + 1

\* The gateway's answer to requestPayment, then prisma.payment.create.
RequestCreate(p, success) ==
    /\ procs[p].pc = "gateway"
    /\ procs[p].op = "request"
    /\ IF success
       THEN /\ payments' = Append(payments,
                              [orderId |-> procs[p].order, status |-> "PENDING",
                               amount |-> orders[procs[p].order].finalAmount,
                               refunded |-> FALSE])
            /\ procs' = [procs EXCEPT ![p] = Done(@, 200)]
       ELSE /\ procs' = [procs EXCEPT ![p] = Done(@, 500)]
            /\ UNCHANGED payments
    /\ UNCHANGED <<orders, history, usedCount, ops, rooms, joining, denied, now, calc,
                 memberPoints, customerProfiles, completions,
                 sent, delivered>>

(* GET /api/payments/line-pay/confirm *)

ConfirmFind(p, transactionId) ==
    /\ Accepts(p)
    /\ LET req == [Request("confirm", "gateway") EXCEPT !.status = "CONFIRMED"] @@
                  [payment |-> transactionId, todo |-> {"payment", "update", "history"}]
       IN procs' = [procs EXCEPT ![p] =
            IF transactionId > Len(payments)
            THEN Done(req, 404)
            ELSE [req EXCEPT !.order = payments[transactionId].orderId]]
    /\ UNCHANGED <<orders, history, payments, usedCount, rooms, joining, denied, now, calc,
                 memberPoints, customerProfiles, completions,
                 sent, delivered>>
    /\ ops' = ops + 1

\* The gateway's answer to confirmPayment; on failure the payment is marked FAILED.
ConfirmGateway(p, success) ==
    /\ procs[p].pc = "gateway"
    /\ procs[p].op = "confirm"
    /\ IF success
       THEN /\ procs' = [procs EXCEPT ![p].pc = "all"]
            /\ UNCHANGED payments
       ELSE /\ payments' = [payments EXCEPT ![procs[p].payment].status = "FAILED"]
            /\ procs' = [procs EXCEPT ![p] = Done(@, 400)]
    /\ UNCHANGED <<orders, history, usedCount, ops, rooms, joining, denied, now, calc,
                 memberPoints, customerProfiles, completions,
                 sent, delivered>>

ConfirmPayment(p) ==
    /\ procs[p].pc = "all"
    /\ procs[p].op = "confirm"
    /\ "payment" \in procs[p].todo
    /\ payments' = [payments EXCEPT ![procs[p].payment].status = "COMPLETED"]
    /\ procs' = [procs EXCEPT ![p] = Settle(@, "payment", 302)]
    /\ UNCHANGED <<orders, history, usedCount, ops, rooms, joining, denied, now, calc,
                 memberPoints, customerProfiles, completions,
                 sent, delivered>>

ConfirmUpdate(p) ==
    /\ procs[p].pc = "all"
    /\ procs[p].op = "confirm"
    /\ "update" \in procs[p].todo
    /\ orders' = OrderUpdate(orders, procs[p].order,
                             [paymentStatus |-> "COMPLETED", status |-> "CONFIRMED"])
    /\ procs' = [procs EXCEPT ![p] = Settle([@ EXCEPT !.wrote = TRUE], "update", 302)]
    /\ UNCHANGED <<history, payments, usedCount, ops, rooms, joining, denied, now, calc,
                 memberPoints, customerProfiles, completions,
                 sent, delivered>>

ConfirmHistory(p) ==
    /\ procs[p].pc = "all"
    /\ procs[p].op = "confirm"
    /\ "history" \in procs[p].todo
    /\ history' = HistoryCreate(history, procs[p].order, "CONFIRMED")
    /\ procs' = [procs EXCEPT ![p] = Settle(@, "history", 302)]
    /\ UNCHANGED <<orders, payments, usedCount, ops, rooms, joining, denied, now, calc,
                 memberPoints, customerProfiles, completions,
                 sent, delivered>>

(* POST /api/payments/:paymentId/refund *)

\* amountOk: the requested amount is absent or at most the payment's amount.
RefundFind(p, user, paymentId, amountOk) ==
    /\ Accepts(p)
    /\ LET req == [Request("refund", "gateway") EXCEPT !.status = "CANCELLED"] @@
                  [payment |-> paymentId, todo |-> {"update", "history"}]
           found == /\ paymentId <= Len(payments)
                    /\ payments[paymentId].status = "COMPLETED"
                    /\ StoreTenant[orders[payments[paymentId].orderId].storeId] = user.tenantId
       IN procs' = [procs EXCEPT ![p] =
            IF ~found
            THEN Done(req, 404)
            ELSE IF ~requireRoles({"TENANT_ADMIN", "STORE_MANAGER", "SUPER_ADMIN"}, user)
            THEN Done(req, 403)
            ELSE IF ~amountOk
            THEN Done(req, 400)
            ELSE [req EXCEPT !.order = payments[paymentId].orderId]]
    /\ UNCHANGED <<orders, history, payments, usedCount, rooms, joining, denied, now, calc,
                 memberPoints, customerProfiles, completions,
                 sent, delivered>>
    /\ ops' = ops + 1

\* The gateway's answer to refundPayment, then the payment is marked REFUNDED.
RefundPayment(p, success) ==
    /\ procs[p].pc = "gateway"
    /\ procs[p].op = "refund"
    /\ IF success
       THEN /\ payments' = [payments EXCEPT ![procs[p].payment].status = "REFUNDED",
                                            ![procs[p].payment].refunded = TRUE]
            /\ procs' = [procs EXCEPT ![p].pc = "all"]
       ELSE /\ procs' = [procs EXCEPT ![p] = Done(@, 500)]
            /\ UNCHANGED payments
    /\ UNCHANGED <<orders, history, usedCount, ops, rooms, joining, denied, now, calc,
                 memberPoints, customerProfiles, completions,
                 sent, delivered>>

RefundUpdate(p) ==
    /\ procs[p].pc = "all"
    /\ procs[p].op = "refund"
    /\ "update" \in procs[p].todo
    /\ orders' = OrderUpdate(orders, procs[p].order,
                             [status |-> "CANCELLED", paymentStatus |-> "REFUNDED"])
    /\ procs' = [procs EXCEPT ![p] = Settle([@ EXCEPT !.wrote = TRUE], "update", 200)]
    /\ UNCHANGED <<history, payments, usedCount, ops, rooms, joining, denied, now, calc,
                 memberPoints, customerProfiles, completions,
                 sent, delivered>>

RefundHistory(p) ==
    /\ procs[p].pc = "all"
    /\ procs[p].op = "refund"
    /\ "history" \in procs[p].todo
    /\ history' = HistoryCreate(history, procs[p].order, "CANCELLED")
    /\ procs' = [procs EXCEPT ![p] = Settle(@, "history", 200)]
    /\ UNCHANGED <<orders, payments, usedCount, ops, rooms, joining, denied, now, calc,
                 memberPoints, customerProfiles, completions,
                 sent, delivered>>

-----------------------------------------------------------------------------
(* Socket rooms *)

\* SocketManager.verifyStoreAccess: a store with that id and tenant exists.
verifyStoreAccess(tenantId, storeId) ==
    storeId \in Stores /\ StoreTenant[storeId] = tenantId

\* No connection has sent a join-store or a leave-store yet.
NothingSent == [cs \in Conns \X Stores |-> "none"]

\* SocketManager 'join-store': starts verifyStoreAccess and returns.
JoinStore(c, storeId) ==
    /\ <<c, storeId>> \notin joining
    /\ joining' = joining \cup {<<c, storeId>>}
    /\ sent' = [sent EXCEPT ![<<c, storeId>>] = "join"]
    /\ UNCHANGED <<orders, history, payments, usedCount, procs, ops, rooms, denied, now, calc,
                 memberPoints, customerProfiles, completions, delivered>>

\* The .then of 'join-store': join the room, or send the 'error' event.
JoinStoreThen(c, storeId) ==
    /\ <<c, storeId>> \in joining
    /\ joining' = joining \ {<<c, storeId>>}
    /\ IF verifyStoreAccess(ConnTenant[c], storeId)
       THEN /\ rooms' = [rooms EXCEPT ![storeId] = @ \cup {c}]
            /\ UNCHANGED denied
       ELSE /\ denied' = denied \cup {<<c, storeId>>}
            /\ UNCHANGED rooms
    /\ UNCHANGED <<orders, history, payments, usedCount, procs, ops, now, calc,
                 memberPoints, customerProfiles, completions, sent, delivered>>

\* SocketManager 'leave-store': socket.leave, whether or not the connection is
\* in the room (a repeated leave-store changes nothing).
LeaveStore(c, storeId) ==
    /\ c \in rooms[storeId] \/ sent[<<c, storeId>>] = "join"
    /\ rooms' = [rooms EXCEPT ![storeId] = @ \ {c}]
    /\ sent' = [sent EXCEPT ![<<c, storeId>>] = "leave"]
    /\ UNCHANGED <<orders, history, payments, usedCount, procs, ops, joining, denied, now, calc,
                 memberPoints, customerProfiles, completions, delivered>>

\* server.ts io.on('connection'): 'join-store' joins the room at once.
ServerJoinStore(c, storeId) ==
    /\ c \notin rooms[storeId]
    /\ rooms' = [rooms EXCEPT ![storeId] = @ \cup {c}]
    /\ sent' = [sent EXCEPT ![<<c, storeId>>] = "join"]
    /\ UNCHANGED <<orders, history, payments, usedCount, procs, ops, joining, denied, now, calc,
                 memberPoints, customerProfiles, completions, delivered>>

\* socket 'send-broadcast' of a connection authenticated as user: the role
\* check, then 'system-broadcast' to the target store rooms, or to the tenant
\* room (joined by every connection of the tenant on connecting).
SendBroadcast(c, user, targetStores) ==
    /\ ops < MaxOps
    /\ user.tenantId = ConnTenant[c]
    /\ ops' = ops + 1
    /\ IF ~requireRoles({"TENANT_ADMIN", "SUPER_ADMIN"}, user)
       THEN UNCHANGED delivered
       ELSE IF targetStores # {}
       THEN delivered' = delivered \cup
               {[to |-> d, from |-> user.tenantId, room |-> <<"store", storeId>>] :
                   <<d, storeId>> \in {ds \in Conns \X targetStores : ds[1] \in rooms[ds[2]]}}
       ELSE delivered' = delivered \cup
               {[to |-> d, from |-> user.tenantId, room |-> <<"tenant", user.tenantId>>] :
                   d \in {e \in Conns : ConnTenant[e] = user.tenantId}}
    /\ UNCHANGED <<orders, history, payments, usedCount, procs, rooms, joining, denied, now, calc,
                 memberPoints, customerProfiles, completions, sent>>

-----------------------------------------------------------------------------
(* Specifications *)

\* The socket event carries any string as the status.
SocketStatuses == Statuses \cup {"UNKNOWN"}

\* Ids a request may name: those of the rows that exist and one that does not.
OrderIds == 1..Min(Len(orders) + 1, MaxOrders)

PaymentIds == 1..Min(Len(payments) + 1, MaxPayments)

Line(productId, variantId, quantity, addons) ==
    [productId |-> productId, variantId |-> variantId, quantity |-> quantity,
     addons |-> addons]

NoCalc == [coupon |-> [type |-> None, value |-> 0, maxDiscount |-> << >>],
           orderAmount |-> 0, discount |-> 0, applied |-> FALSE]

Init ==
    /\ orders = << >>
    /\ history = << >>
    /\ payments = << >>
    /\ usedCount = [c \in DOMAIN Coupons |-> 0]
    /\ procs = [p \in Procs |-> Idle]
    /\ ops = 0
    /\ rooms = [s \in Stores |-> {}]
    /\ joining = {}
    /\ denied = {}
    /\ now = 2
    /\ calc = NoCalc
    /\ memberPoints = << >>
    /\ customerProfiles = SeededProfiles
    /\ completions = << >>
    /\ sent = NothingSent
    /\ delivered = {}

\* Requests of the concurrent runs: one order per store and one coupon.
Start(p) ==
    \/ \E user \in Users, couponCode \in {None, "TEN"} :
          CreateStart(p, user, "S1", << Line("P1", None, 2, << >>) >>, couponCode)
    \/ \E user \in Users, paymentMethod \in {"CASH", "CARD"} :
          PosStart(p, user, "S1", "custA", << Line("P1", None, 1, << >>) >>, paymentMethod)
    \/ \E user \in Users, id \in OrderIds, status \in PatchStatuses :
          PatchFind(p, user, id, status)
    \/ \E user \in Users, id \in OrderIds : CancelFind(p, user, id)
    \/ \E user \in Users, orderIds \in (SUBSET OrderIds) \ {{}},
          status \in {"PREPARING", "COMPLETED"} :
          BatchFind(p, user, orderIds, status)
    \/ \E user \in Users, id \in OrderIds, status \in {"PENDING", "READY", "UNKNOWN"} :
          SocketUpdate(p, user, id, status)
    \/ \E user \in Users, id \in OrderIds : RequestFind(p, user, id, TRUE)
    \/ \E id \in PaymentIds : ConfirmFind(p, id)
    \/ \E user \in Users, id \in PaymentIds : RefundFind(p, user, id, TRUE)

Step(p) ==
    \/ CreateGenerate(p)
    \/ CreateInsert(p)
    \/ PosPayment(p)
    \/ CreateHistory(p)
    \/ CreateCoupon(p)
    \/ PatchUpdate(p)
    \/ PatchHistory(p)
    \/ CompletionPoints(p)
    \/ CancelUpdate(p)
    \/ CancelHistory(p)
    \/ BatchUpdate(p)
    \/ BatchHistory(p)
    \/ SocketHistory(p)
    \/ \E success \in BOOLEAN : RequestCreate(p, success)
    \/ \E success \in BOOLEAN : ConfirmGateway(p, success)
    \/ ConfirmPayment(p)
    \/ ConfirmUpdate(p)
    \/ ConfirmHistory(p)
    \/ \E success \in BOOLEAN : RefundPayment(p, success)
    \/ RefundUpdate(p)
    \/ RefundHistory(p)

Next == \E p \in Procs : Start(p) \/ Step(p)

Spec == Init /\ [][Next]_vars

\* All handlers have answered.
Quiet == \A p \in Procs : ~Running(p)

\* Requests of the runs in which a request arrives only when no other is running.
SeqStart(p) ==
    /\ Quiet
    /\ \/ Start(p)
       \/ \E user \in Users, id \in OrderIds, status \in {"PENDING", "UNKNOWN"} :
             PatchFind(p, user, id, status)

SeqNext == \E p \in Procs : SeqStart(p) \/ Step(p)

SeqSpec == Init /\ [][SeqNext]_vars

RoomNext ==
    \E c \in Conns, storeId \in Stores :
        \/ JoinStore(c, storeId)
        \/ JoinStoreThen(c, storeId)
        \/ LeaveStore(c, storeId)
        \/ ServerJoinStore(c, storeId)

RoomSpec == Init /\ [][RoomNext]_vars

\* calculateDiscount applied to a coupon and an order amount drawn at the start.
ApplyDiscount ==
    /\ ~calc.applied
    /\ calc' = [calc EXCEPT !.discount = calculateDiscount(calc.coupon, calc.orderAmount),
                            !.applied = TRUE]
    /\ UNCHANGED <<orders, history, payments, usedCount, procs, ops, rooms, joining, denied, now,
                 memberPoints, customerProfiles, completions,
                 sent, delivered>>

DiscountCoupons ==
    [type : {"PERCENTAGE", "FIXED_AMOUNT", "FREE_SHIPPING"},
     value : {0, 10, 50, 150, 5000},
     maxDiscount : {<< >>, <<0>>, <<1000>>}]

DiscountInit ==
    /\ orders = << >>
    /\ history = << >>
    /\ payments = << >>
    /\ usedCount = [c \in DOMAIN Coupons |-> 0]
    /\ procs = [p \in Procs |-> Idle]
    /\ ops = 0
    /\ rooms = [s \in Stores |-> {}]
    /\ joining = {}
    /\ denied = {}
    /\ now = 2
    /\ memberPoints = << >>
    /\ customerProfiles = SeededProfiles
    /\ completions = << >>
    /\ sent = NothingSent
    /\ delivered = {}
    /\ calc \in [coupon : DiscountCoupons, orderAmount : {0, 6000, 12000},
                 discount : {0}, applied : {FALSE}]

DiscountSpec == DiscountInit /\ [][ApplyDiscount]_vars

\* Item lists of the pricing runs: priced lines, and one line per rejection.
PricingItems ==
    { << Line("P1", None, 2, << >>) >>,
      << Line("P1", "V1", 1, << [addonId |-> "A1", quantity |-> 2] >>) >>,
      << Line("P1", None, 1, << >>), Line("P1", "V1", 2, << >>) >>,
      << Line("P1", None, 1, << [addonId |-> "A1", quantity |-> 0 - 7] >>) >>,
      << Line("P1", None, 6, << >>) >>,
      << Line("P2", None, 1, << >>) >>,
      << Line("P1", "V9", 1, << >>) >>,
      << Line("P1", None, 1, << [addonId |-> "A9", quantity |-> 1] >>) >>,
      << Line("P1", None, 1, << [addonId |-> "A1", quantity |-> 3] >>) >> }

PricingStart(p) ==
    /\ Quiet
    /\ \/ \E user \in Users, items \in PricingItems,
             couponCode \in {None, "TEN", "FIFTY", "SHIP", "NOPE"} :
             CreateStart(p, user, "S1", items, couponCode)
       \/ \E user \in Users, items \in PricingItems, paymentMethod \in {"CASH", "CARD"} :
             PosStart(p, user, "S1", "custA", items, paymentMethod)

PricingNext ==
    \E p \in Procs :
        \/ PricingStart(p)
        \/ CreateGenerate(p)
        \/ CreateInsert(p)
        \/ PosPayment(p)
        \/ CreateHistory(p)
        \/ CreateCoupon(p)

PricingSpec == Init /\ [][PricingNext]_vars

-----------------------------------------------------------------------------
(* Properties *)

TransitionTable ==
    { <<"PENDING", "CONFIRMED">>, <<"CONFIRMED", "PREPARING">>,
      <<"PREPARING", "READY">>, <<"READY", "COMPLETED">>,
      <<"PENDING", "CANCELLED">>, <<"CONFIRMED", "CANCELLED">>,
      <<"PREPARING", "CANCELLED">> }

\* A PATCH or cancel request that has read the order it names.
HasRead(p) ==
    /\ procs[p].pc # "idle"
    /\ procs[p].op \in {"patch", "cancel"}
    /\ procs[p].seen # None

\* C1: validateStatusTransition(c, s) holds exactly for the pairs of the
\* transition table, for every c and s including unknown ones and s = c; and a
\* PATCH status request that has read an order in status c goes on (and answers
\* 200) exactly when (c, s) is in the table, and is answered 400 otherwise.
C1_TransitionIffInTable ==
    /\ \A c \in SocketStatuses, s \in SocketStatuses :
          validateStatusTransition(c, s) <=> <<c, s>> \in TransitionTable
    /\ \A p \in Procs :
          HasRead(p) /\ procs[p].op = "patch" =>
             /\ procs[p].code \in {0, 200, 400}
             /\ procs[p].code \in {0, 200}
                   <=> <<procs[p].seen, procs[p].status>> \in TransitionTable

\* C1 witness: a PATCH READY -> COMPLETED has answered 200.
C1_Witness ==
    \E p \in Procs :
        /\ HasRead(p) /\ procs[p].op = "patch" /\ procs[p].code = 200
        /\ procs[p].seen = "READY" /\ procs[p].status = "COMPLETED"
        /\ orders[procs[p].order].status = "COMPLETED"

\* C2: every change of an order's status, by whichever entry point, is an edge
\* of the transition table (so COMPLETED and CANCELLED orders never change).
C2_OnlyTableEdges ==
    [][\A id \in DOMAIN orders :
          orders'[id].status # orders[id].status =>
             <<orders[id].status, orders'[id].status>> \in TransitionTable]_vars

\* C3: of two status-change requests that read the same order at the same
\* stamp (the same prior state), at most one succeeds.
C3_AtMostOneCommit ==
    \A p, q \in Procs :
        ( /\ p # q /\ HasRead(p) /\ HasRead(q)
          /\ procs[p].order = procs[q].order
          /\ procs[p].seenAt = procs[q].seenAt )
        => ~(procs[p].code = 200 /\ procs[q].code = 200)

\* C4: with requests run one at a time, once the running request has answered,
\* every order has as many history entries as status writes applied to it
\* (creation included) and its newest history entry carries its status.
C4_HistoryMatchesStatus ==
    Quiet =>
       \A id \in DOMAIN orders :
           /\ Len(history[id]) = orders[id].updatedAt
           /\ history[id][Len(history[id])] = orders[id].status

\* C4 witness: an order whose status was written three times, all answered.
C4_Witness ==
    /\ Quiet
    /\ \E id \in DOMAIN orders : orders[id].updatedAt = 3 /\ Len(history[id]) = 3

\* C5: once all concurrent requests have answered, the newest history entry of
\* every order carries the order's current status.
C5_NewestEntryIsCurrent ==
    Quiet =>
       \A id \in DOMAIN orders :
           history[id] # << >> => history[id][Len(history[id])] = orders[id].status

\* A creation that holds the order number generateOrderNumber returned to it.
HoldsNumber(p) ==
    /\ Running(p)
    /\ procs[p].op \in {"create", "pos"}
    /\ procs[p].pc # "generate"

\* C6: concurrent order creations of one store obtain pairwise distinct numbers.
C6_DistinctOrderNumbers ==
    \A p, q \in Procs :
        (p # q /\ HoldsNumber(p) /\ HoldsNumber(q) /\ procs[p].storeId = procs[q].storeId)
        => procs[p].orderNumber # procs[q].orderNumber

\* C7: a coupon's usedCount never exceeds its usage limit.
C7_UsedCountWithinLimit ==
    \A c \in DOMAIN Coupons :
        Coupons[c].usageLimit # << >> => usedCount[c] <= Coupons[c].usageLimit[1]

\* C8: only connections whose tenant owns the store are in its room, and a
\* connection that is not, once its join-store is handled, has been denied.
C8_OnlyOwnersInStoreRoom ==
    \A storeId \in Stores : \A c \in rooms[storeId] : ConnTenant[c] = StoreTenant[storeId]

\* C9: every order row satisfies finalAmount = totalAmount - discountAmount and
\* 0 <= discountAmount <= totalAmount.
C9_AmountsConsistent ==
    \A id \in DOMAIN orders :
        /\ orders[id].finalAmount = orders[id].totalAmount - orders[id].discountAmount
        /\ 0 <= orders[id].discountAmount
        /\ orders[id].discountAmount <= orders[id].totalAmount

\* C10: calculateDiscount is the coupon's raw discount (percentage of the
\* amount, fixed value, or 0), lowered to maxDiscount when one is configured,
\* then lowered to the amount.
C10_DiscountFormula ==
    calc.applied =>
       LET raw == CASE calc.coupon.type = "PERCENTAGE" ->
                          (calc.orderAmount * calc.coupon.value) \div 100
                    [] calc.coupon.type = "FIXED_AMOUNT" -> calc.coupon.value
                    [] calc.coupon.type = "FREE_SHIPPING" -> 0
           capped == IF calc.coupon.maxDiscount # << >>
                     THEN Min(raw, calc.coupon.maxDiscount[1]) ELSE raw
       IN calc.discount = Min(capped, calc.orderAmount)

-----------------------------------------------------------------------------
(* Completion processor *)

\* Orders handed to handleOrderCompletion: with the items relation loaded or not.
CompletionOrders ==
    [id : {1}, customerId : {"custA", "adminA"},
     finalAmount : {10800, 500, 0 - 1000}, hasItems : BOOLEAN]

\* The customer's profile is new, or earlier completions have brought it to 995.
CompletionInit ==
    /\ orders = << >>
    /\ history = << >>
    /\ payments = << >>
    /\ usedCount = [c \in DOMAIN Coupons |-> 0]
    /\ procs = [p \in Procs |-> Idle]
    /\ ops = 0
    /\ rooms = [s \in Stores |-> {}]
    /\ joining = {}
    /\ denied = {}
    /\ now = 2
    /\ calc = NoCalc
    /\ memberPoints = << >>
    /\ customerProfiles \in [{"custA"} -> [totalSpent : {0, 99500}, loyaltyTier : {"BRONZE"}]]
    /\ completions = << >>
    /\ sent = NothingSent
    /\ delivered = {}

CompletionNext ==
    \E p \in Procs :
        \/ \E order \in CompletionOrders : CompleteCall(p, order)
        \/ CompletionPoints(p)
        \/ CompletionStats(p)
        \/ CompletionSpend(p)
        \/ CompletionRead(p)
        \/ CompletionTier(p)

CompletionSpec == CompletionInit /\ [][CompletionNext]_vars

RECURSIVE Count(_, _)
Count(seq, x) ==
    IF seq = << >> THEN 0 ELSE (IF Head(seq) = x THEN 1 ELSE 0) + Count(Tail(seq), x)

\* C11: once no request is running, handleOrderCompletion has been called
\* exactly once for every order whose status is COMPLETED.
C11_CompletionRunsOnce ==
    Quiet =>
       \A id \in DOMAIN orders :
           orders[id].status = "COMPLETED" => Count(completions, id) = 1

RECURSIVE SumEarn(_, _)
SumEarn(table, userId) ==
    IF table = << >> THEN 0
    ELSE (IF Head(table).userId = userId /\ Head(table).type = "EARN"
          THEN Head(table).amount ELSE 0) + SumEarn(Tail(table), userId)

\* C12: the points step of a run for an order of net amount n adds
\* floor(n / 10) to the sum of the customer's EARN ledger entries.
C12_PointsEarned ==
    [][\A p \in Procs :
          (procs[p].pc = "points" /\ procs'[p].pc # "points") =>
             SumEarn(memberPoints', procs[p].arg.customerId)
                = SumEarn(memberPoints, procs[p].arg.customerId)
                   + (procs[p].arg.finalAmount \div 1000)]_vars

-----------------------------------------------------------------------------
(* Storage faults *)

\* prisma.orderStatusHistory.create of an order creation rejects (timeout, lost
\* connection): the handler's catch passes the error on and nothing is undone.
CreateHistoryFails(p) ==
    /\ procs[p].pc = "history"
    /\ procs[p].op \in {"create", "pos"}
    /\ procs' = [procs EXCEPT ![p] = Done(@, 500)]
    /\ UNCHANGED <<orders, history, payments, usedCount, ops, rooms, joining, denied, now, calc,
                   memberPoints, customerProfiles, completions,
                   sent, delivered>>

\* The same for the history create of PATCH /:id/status, after order.update.
PatchHistoryFails(p) ==
    /\ procs[p].pc = "history"
    /\ procs[p].op = "patch"
    /\ procs' = [procs EXCEPT ![p] = Done(@, 500)]
    /\ UNCHANGED <<orders, history, payments, usedCount, ops, rooms, joining, denied, now, calc,
                   memberPoints, customerProfiles, completions,
                   sent, delivered>>

\* Requests served one at a time, with storage calls that may fail.
FaultNext ==
    \/ SeqNext
    \/ \E p \in Procs : CreateHistoryFails(p) \/ PatchHistoryFails(p)

FaultSpec == Init /\ [][FaultNext]_vars

\* C15: once a request has answered, whether it succeeded or failed midway,
\* every order has its creation history entry and one history entry for every
\* status write applied to it.
C15_AllOrNothing ==
    Quiet =>
       \A id \in DOMAIN orders :
           /\ history[id] # << >>
           /\ Len(history[id]) = orders[id].updatedAt

-----------------------------------------------------------------------------
(* Rejected creations *)

\* Request p is answered 400 in this step.
Rejected(p) ==
    /\ procs'[p] # procs[p]
    /\ procs'[p].pc = "done"
    /\ procs'[p].op \in {"create", "pos"}
    /\ procs'[p].code = 400

-----------------------------------------------------------------------------
(* Order numbers in full: date prefix and padded sequence *)

\* Instants are hours since 00:00 UTC of the first day of Calendar.
Calendar == << [y |-> 2025, m |-> 7, d |-> 30],
               [y |-> 2025, m |-> 7, d |-> 31],
               [y |-> 2025, m |-> 8, d |-> 1] >>

\* Number.prototype.toString: the decimal digits of a natural number.
RECURSIVE Decimal(_)
Decimal(n) == IF n < 10 THEN << n >> ELSE Append(Decimal(n \div 10), n % 10)

\* String.prototype.padStart(width, '0')
RECURSIVE PadStart(_, _)
PadStart(digits, width) ==
    IF Len(digits) >= width THEN digits ELSE PadStart(<< 0 >> \o digits, width)

\* today.toISOString().slice(0, 10).replace(/-/g, ''): the UTC date of the instant.
DateStr(t) ==
    LET date == Calendar[(t \div 24) + 1]
    IN PadStart(Decimal(date.y), 4) \o PadStart(Decimal(date.m), 2)
          \o PadStart(Decimal(date.d), 2)

\* new Date(today.getFullYear(), today.getMonth(), today.getDate()): midnight of
\* the instant's date in the time zone of the process, tz hours east of UTC.
StartOfDay(t, tz) == 24 * ((t + tz) \div 24) - tz

\* prisma.order.count({where: {storeId, createdAt: {gte: startOfDay, lt: endOfDay}}})
TodayOrderCount(storeId, rows, t, tz) ==
    Cardinality({i \in 1..Len(rows) :
                    /\ rows[i].storeId = storeId
                    /\ rows[i].createdAt >= StartOfDay(t, tz)
                    /\ rows[i].createdAt < StartOfDay(t, tz) + 24})

\* generateOrderNumber with its clock and time zone made explicit; the request
\* runs above take place within one day and keep the sequence part only.
GenerateOrderNumberAt(storeId, rows, t, tz) ==
    DateStr(t) \o PadStart(Decimal(TodayOrderCount(storeId, rows, t, tz) + 1), 4)

\* A call of generateOrderNumber; nothing is written between two calls.
GenerateCall ==
    /\ Len(calc.numbers) < 2
    /\ calc' = [calc EXCEPT !.numbers =
                  Append(@, GenerateOrderNumberAt(calc.storeId, calc.rows, calc.at, calc.tz))]
    /\ UNCHANGED <<orders, history, payments, usedCount, procs, ops, rooms, joining, denied, now,
                   memberPoints, customerProfiles, completions,
                   sent, delivered>>

\* Orders created in the morning (10:00 at UTC+8) or late evening UTC of the first day.
NumberRows == [storeId : Stores, createdAt : {2, 20}]

NumberInit ==
    /\ orders = << >>
    /\ history = << >>
    /\ payments = << >>
    /\ usedCount = [c \in DOMAIN Coupons |-> 0]
    /\ procs = [p \in Procs |-> Idle]
    /\ ops = 0
    /\ rooms = [s \in Stores |-> {}]
    /\ joining = {}
    /\ denied = {}
    /\ now = 2
    /\ memberPoints = << >>
    /\ customerProfiles = SeededProfiles
    /\ completions = << >>
    /\ sent = NothingSent
    /\ delivered = {}
    /\ calc \in [storeId : {"S1"},
                 rows : {<< >>} \cup {<< r >> : r \in NumberRows}
                           \cup {<< r, q >> : r \in NumberRows, q \in NumberRows},
                 at : {20, 30}, tz : {0, 8}, numbers : {<< >>}]

NumberSpec == NumberInit /\ [][GenerateCall]_vars

\* C17: two successive calls for the same store return different numbers.
C17_SuccessiveNumbersDiffer ==
    Len(calc.numbers) = 2 => calc.numbers[1] # calc.numbers[2]

\* The store's orders created on day d, the days being those of UTC or those
\* of the time zone of the process.
CreatedOn(d, local) ==
    {i \in 1..Len(calc.rows) :
        /\ calc.rows[i].storeId = calc.storeId
        /\ (calc.rows[i].createdAt + (IF local THEN calc.tz ELSE 0)) \div 24 = d}

\* C18: a returned number is the YYYYMMDD of the current date followed by the
\* four-digit padded k, k being one more than the store's orders created on
\* that date (in one calendar, UTC or local, for both the date and the count).
C18_NumberFormat ==
    \A n \in 1..Len(calc.numbers) :
        \E local \in BOOLEAN :
            LET d == (calc.at + (IF local THEN calc.tz ELSE 0)) \div 24
                date == Calendar[d + 1]
                k == Cardinality(CreatedOn(d, local)) + 1
            IN calc.numbers[n] =
                  << date.y \div 1000, (date.y \div 100) % 10, (date.y \div 10) % 10, date.y % 10,
                     date.m \div 10, date.m % 10, date.d \div 10, date.d % 10,
                     k \div 1000, (k \div 100) % 10, (k \div 10) % 10, k % 10 >>

-----------------------------------------------------------------------------
(* Item validation and pricing on its own *)

ValidateAddonLists ==
    { << >>,
      << [addonId |-> "A1", quantity |-> 2] >>,
      << [addonId |-> "A1", quantity |-> 3] >>,
      << [addonId |-> "A9", quantity |-> 1] >>,
      << [addonId |-> "A1", quantity |-> 1], [addonId |-> "A1", quantity |-> 0 - 7] >>,
      << [addonId |-> "A1", quantity |-> 3], [addonId |-> "A9", quantity |-> 1] >>,
      << [addonId |-> "A9", quantity |-> 1], [addonId |-> "A1", quantity |-> 3] >> }

ValidateLines ==
    [productId : {"P1", "P2", "P3", "PX"}, variantId : {None, "V1", "V3"},
     quantity : {1, 6}, addons : ValidateAddonLists]

\* Lines that follow another line in a request.
SecondLines ==
    {l \in ValidateLines : l.productId \in {"P1", "PX"} /\ l.variantId # "V3"
                           /\ Len(l.addons) < 2}

\* validateOrderItems(items, storeId) and the sum the routes take of its result.
ValidateCall ==
    /\ ~calc.applied
    /\ LET r == validateOrderItems(calc.items, calc.storeId)
       IN calc' = [calc EXCEPT !.result = r,
                               !.totalAmount = IF r.ok THEN SumTotalPrice(r.items) ELSE 0,
                               !.applied = TRUE]
    /\ UNCHANGED <<orders, history, payments, usedCount, procs, ops, rooms, joining, denied, now,
                   memberPoints, customerProfiles, completions,
                   sent, delivered>>

ValidateInit ==
    /\ orders = << >>
    /\ history = << >>
    /\ payments = << >>
    /\ usedCount = [c \in DOMAIN Coupons |-> 0]
    /\ procs = [p \in Procs |-> Idle]
    /\ ops = 0
    /\ rooms = [s \in Stores |-> {}]
    /\ joining = {}
    /\ denied = {}
    /\ now = 2
    /\ memberPoints = << >>
    /\ customerProfiles = SeededProfiles
    /\ completions = << >>
    /\ sent = NothingSent
    /\ delivered = {}
    /\ calc \in [items : {<< l >> : l \in ValidateLines}
                            \cup {<< l, m >> : l \in ValidateLines, m \in SecondLines},
                 storeId : Stores, result : {Reject(None)}, totalAmount : {0},
                 applied : {FALSE}]

ValidateSpec == ValidateInit /\ [][ValidateCall]_vars

\* The conditions a requested line has to satisfy, in the order they are listed.
ProductOk(item, storeId) ==
    /\ item.productId \in DOMAIN Products
    /\ Products[item.productId].storeId = storeId
    /\ Products[item.productId].isAvailable

StockOk(item) ==
    \/ Products[item.productId].inventory = << >>
    \/ Products[item.productId].inventory[1] >= item.quantity

VariantOk(item) ==
    item.variantId # None => item.variantId \in DOMAIN Products[item.productId].variants

AddonBelongs(item, i) == item.addons[i].addonId \in DOMAIN Products[item.productId].addons

AddonOk(item, i) ==
    /\ AddonBelongs(item, i)
    /\ item.addons[i].quantity
          <= Products[item.productId].addons[item.addons[i].addonId].maxQuantity

LineOk(item, storeId) ==
    /\ ProductOk(item, storeId)
    /\ StockOk(item)
    /\ VariantOk(item)
    /\ \A i \in 1..Len(item.addons) : AddonOk(item, i)

Least(S) == CHOOSE x \in S : \A y \in S : x <= y

FirstError(item, storeId) ==
    IF ~ProductOk(item, storeId) THEN "ProductUnavailable"
    ELSE IF ~StockOk(item) THEN "InsufficientStock"
    ELSE IF ~VariantOk(item) THEN "InvalidVariant"
    ELSE IF AddonBelongs(item, Least({i \in 1..Len(item.addons) : ~AddonOk(item, i)}))
    THEN "AddonLimitExceeded"
    ELSE "InvalidAddon"

\* C19: validateOrderItems accepts a list exactly when every line satisfies
\* the product, stock, variant and add-on conditions; otherwise it rejects
\* with the first violated condition of the first offending line and returns
\* no priced items.
C19_ValidateIffConditions ==
    calc.applied =>
       LET bad == {i \in 1..Len(calc.items) : ~LineOk(calc.items[i], calc.storeId)}
       IN /\ calc.result.ok <=> bad = {}
          /\ bad # {} =>
                /\ calc.result.error = FirstError(calc.items[Least(bad)], calc.storeId)
                /\ "items" \notin DOMAIN calc.result

\* C19 witness: a two-line request whose second line asks more than the stock.
C19_Witness ==
    /\ calc.applied
    /\ Len(calc.items) = 2
    /\ ~calc.result.ok
    /\ calc.result.error = "InsufficientStock"

RECURSIVE AddonsPrice(_, _)
AddonsPrice(product, addons) ==
    IF addons = << >> THEN 0
    ELSE product.addons[Head(addons).addonId].price * Head(addons).quantity
            + AddonsPrice(product, Tail(addons))

RECURSIVE SumOver(_, _)
SumOver(items, n) == IF n = 0 THEN 0 ELSE SumOver(items, n - 1) + items[n].totalPrice

\* C20: every accepted line has unitPrice = variant price (or base price) plus
\* the sum of add-on price x add-on quantity, and totalPrice = unitPrice x
\* quantity; totalAmount is the sum of the lines' totalPrice.
C20_PricingFormula ==
    (calc.applied /\ calc.result.ok) =>
       /\ Len(calc.result.items) = Len(calc.items)
       /\ \A i \in 1..Len(calc.items) :
             LET item == calc.items[i]
                 product == Products[item.productId]
                 priced == calc.result.items[i]
             IN /\ priced.unitPrice =
                      (IF item.variantId # None THEN product.variants[item.variantId]
                       ELSE product.basePrice) + AddonsPrice(product, item.addons)
                /\ priced.totalPrice = priced.unitPrice * item.quantity
       /\ calc.totalAmount = SumOver(calc.result.items, Len(calc.result.items))

\* C20 witness: two accepted lines, one with a variant and an add-on taken twice.
C20_Witness ==
    /\ calc.applied
    /\ calc.result.ok
    /\ Len(calc.items) = 2
    /\ calc.items[1].variantId = "V1"
    /\ calc.items[1].addons = << [addonId |-> "A1", quantity |-> 2] >>
    /\ calc.totalAmount = 16000

-----------------------------------------------------------------------------
(* Coupon validation on its own *)

\* Coupon rows the schema admits for the code TEN.
CouponRows ==
    [storeId : {"S1"}, type : {"PERCENTAGE"}, value : {10},
     minOrderAmount : {<< >>, <<0>>, <<10000>>}, maxDiscount : {<< >>},
     usageLimit : {<< >>, <<0>>, <<1>>, <<2>>},
     isActive : BOOLEAN, validFrom : {1}, validUntil : {3}]

\* validateCoupon(couponCode, storeId, orderAmount) at time calc.at.
CouponCall ==
    /\ ~calc.applied
    /\ calc' = [calc EXCEPT !.result = validateCouponOn(calc.table, calc.code, calc.storeId,
                                                        calc.orderAmount, usedCount, calc.at),
                            !.applied = TRUE]
    /\ UNCHANGED <<orders, history, payments, usedCount, procs, ops, rooms, joining, denied, now,
                   memberPoints, customerProfiles, completions,
                   sent, delivered>>

CouponInit ==
    /\ orders = << >>
    /\ history = << >>
    /\ payments = << >>
    /\ usedCount \in [{"TEN"} -> 0..2]
    /\ procs = [p \in Procs |-> Idle]
    /\ ops = 0
    /\ rooms = [s \in Stores |-> {}]
    /\ joining = {}
    /\ denied = {}
    /\ now = 2
    /\ memberPoints = << >>
    /\ customerProfiles = SeededProfiles
    /\ completions = << >>
    /\ sent = NothingSent
    /\ delivered = {}
    /\ calc \in [table : [{"TEN"} -> CouponRows], code : {"TEN", "NOPE"}, storeId : Stores,
                 orderAmount : {0, 6000, 12000}, at : {0, 2, 4},
                 result : {Reject(None)}, applied : {FALSE}]

CouponSpec == CouponInit /\ [][CouponCall]_vars

\* C21: validateCoupon succeeds exactly when the coupon exists for the store,
\* is active, the time is within [validFrom, validUntil], usedCount is below
\* the usage limit whenever a limit is configured (whatever its value) and
\* the gross reaches the minimum whenever one is configured; otherwise it
\* rejects and returns no coupon.
C21_CouponIffConditions ==
    calc.applied =>
       LET exists == /\ calc.code \in DOMAIN calc.table
                     /\ calc.table[calc.code].storeId = calc.storeId
           row == calc.table[calc.code]
           valid == /\ exists
                    /\ row.isActive
                    /\ row.validFrom <= calc.at /\ calc.at <= row.validUntil
                    /\ row.usageLimit # << >> => usedCount[calc.code] < row.usageLimit[1]
                    /\ row.minOrderAmount # << >> => calc.orderAmount >= row.minOrderAmount[1]
       IN /\ calc.result.ok <=> valid
          /\ ~calc.result.ok => "coupon" \notin DOMAIN calc.result

-----------------------------------------------------------------------------
(* Cancellation *)

Cancellable == {"PENDING", "CONFIRMED", "PREPARING"}

\* C22: a cancel request that finds the order (its customer, or a user of the
\* store's tenant) goes on and answers 200 exactly when the status it read is
\* PENDING, CONFIRMED or PREPARING; after a 200 the order is CANCELLED and its
\* history is the history read plus one CANCELLED entry; otherwise the answer
\* is 400 and status, stamp and history are as they were read.
C22_CancelIffCancellable ==
    \A p \in Procs :
        HasRead(p) /\ procs[p].op = "cancel" =>
           LET id == procs[p].order IN
           /\ procs[p].code \in {0, 200, 400}
           /\ procs[p].code \in {0, 200} <=> procs[p].seen \in Cancellable
           /\ procs[p].code = 200 =>
                 /\ orders[id].status = "CANCELLED"
                 /\ orders[id].updatedAt = procs[p].seenAt + 1
                 /\ Len(history[id]) = procs[p].seenAt + 1
                 /\ history[id][Len(history[id])] = "CANCELLED"
                 /\ history[id][procs[p].seenAt] = procs[p].seen
           /\ procs[p].code = 400 =>
                 /\ orders[id].status = procs[p].seen
                 /\ orders[id].updatedAt = procs[p].seenAt
                 /\ Len(history[id]) = procs[p].seenAt

\* C22 witness: a PREPARING order has been cancelled.
C22_Witness ==
    \E p \in Procs :
        /\ HasRead(p) /\ procs[p].op = "cancel" /\ procs[p].code = 200
        /\ procs[p].seen = "PREPARING"
        /\ orders[procs[p].order].status = "CANCELLED"


\* The requests that write payments or an order's paymentStatus, and cancel,
\* interleaved.
RefundStart(p) ==
    \/ \E user \in Users, paymentMethod \in {"CASH", "CARD"} :
          PosStart(p, user, "S1", "custA", << Line("P1", None, 1, << >>) >>, paymentMethod)
    \/ \E user \in Users, id \in OrderIds : CancelFind(p, user, id)
    \/ \E user \in Users, id \in OrderIds : RequestFind(p, user, id, TRUE)
    \/ \E id \in PaymentIds : ConfirmFind(p, id)
    \/ \E user \in Users, id \in PaymentIds : RefundFind(p, user, id, TRUE)

RefundStep(p) ==
    \/ CreateGenerate(p)
    \/ CreateInsert(p)
    \/ PosPayment(p)
    \/ CreateHistory(p)
    \/ CancelUpdate(p)
    \/ CancelHistory(p)
    \/ \E success \in BOOLEAN : RequestCreate(p, success)
    \/ \E success \in BOOLEAN : ConfirmGateway(p, success)
    \/ ConfirmPayment(p)
    \/ ConfirmUpdate(p)
    \/ ConfirmHistory(p)
    \/ \E success \in BOOLEAN : RefundPayment(p, success)
    \/ RefundUpdate(p)
    \/ RefundHistory(p)

RefundNext == \E p \in Procs : RefundStart(p) \/ RefundStep(p)

RefundSpec == Init /\ [][RefundNext]_vars

-----------------------------------------------------------------------------
(* Rejected status changes *)

StatusOps == {"patch", "batch", "socket"}

Targets(p) == IF procs[p].op = "batch" THEN procs[p].orderIds ELSE {procs[p].order}

\* A status-change request by one of the operations in ops that has written
\* the status: in the one-at-a-time runs the last two history entries of each
\* order it touched are the status it found and the status it set.
WroteOnlyEdges(ops_) ==
    Quiet =>
       \A p \in Procs :
          (procs[p].pc = "done" /\ procs[p].op \in ops_ /\ procs[p].wrote) =>
             \A id \in Targets(p) :
                LET h == history[id]
                IN Len(h) >= 2 /\ <<h[Len(h) - 1], h[Len(h)]>> \in TransitionTable

\* C24: a status-change request whose (current, requested) pair is not in the
\* transition table is rejected (400, the message carrying both statuses) and
\* changes nothing: no request writes a status over a pair outside the table,
\* and the step that rejects leaves orders (status, updatedAt), history and
\* the completion runs as they were.
C24_IllegalPairRejected ==
    /\ [](\A p \in Procs :
             (HasRead(p) /\ procs[p].op = "patch"
                /\ <<procs[p].seen, procs[p].status>> \notin TransitionTable)
                => procs[p].code = 400 /\ ~procs[p].wrote)
    /\ []WroteOnlyEdges(StatusOps)
    /\ [][\A p \in Procs :
             ( /\ procs'[p] # procs[p]
               /\ procs'[p].pc = "done"
               /\ procs'[p].op \in StatusOps
               /\ procs'[p].code = 400 )
             => UNCHANGED <<orders, history, completions>>]_vars


-----------------------------------------------------------------------------
(* Role check of status changes *)

StaffRoles == {"TENANT_ADMIN", "STORE_MANAGER", "STAFF"}

\* C25: a status change asked through PATCH /:id/status or through the socket
\* event 'update-order-status' by a user holding none of TENANT_ADMIN,
\* STORE_MANAGER, STAFF is answered with insufficient permission (403) and
\* leaves every order's status and history unchanged.
C25_RoleRequired ==
    [][\A p \in Procs :
          \* a request has just been taken by handler p: it names an order and a
          \* status, which are those of the PATCH or of the socket event.
          ( /\ ops' = ops + 1 /\ procs'[p] # procs[p] /\ procs'[p].pc # "idle"
            /\ procs'[p].op \in {"patch", "socket"}
            /\ procs'[p].order \in 1..MaxOrders ) =>
             \A user \in Users :
                ( /\ user.roles \cap StaffRoles = {}
                  /\ \/ PatchFind(p, user, procs'[p].order, procs'[p].status)
                     \/ SocketUpdate(p, user, procs'[p].order, procs'[p].status) )
                => /\ procs'[p].pc = "done"
                   /\ procs'[p].code = 403
                   /\ UNCHANGED <<orders, history>>]_vars

\* C25 witness: a status change of an existing PENDING order was refused for
\* want of a role.
C25_Witness ==
    \E p \in Procs :
        /\ procs[p].pc = "done"
        /\ procs[p].op \in {"patch", "socket"}
        /\ procs[p].code = 403
        /\ procs[p].order \in DOMAIN orders
        /\ procs[p].status = "READY"
        /\ orders[procs[p].order].status = "PENDING"
        /\ history[procs[p].order] = << "PENDING" >>


-----------------------------------------------------------------------------
(* Estimated preparation time on its own *)

EstimateAddon == [addonId |-> "A1", quantity |-> 1, price |-> 0]

EstimateLines ==
    [productId : {"P1"}, quantity : {1, 2, 3},
     addons : {<< >>, << EstimateAddon >>, << EstimateAddon, EstimateAddon >>}]

\* calculateEstimatedTime(items), and again after one more add-on on a line.
EstimateCall ==
    /\ ~calc.applied
    /\ LET more == [calc.items EXCEPT ![calc.line].addons = Append(@, EstimateAddon)]
       IN calc' = [calc EXCEPT !.estimate = calculateEstimatedTime(calc.items),
                               !.estimateMore = calculateEstimatedTime(more),
                               !.applied = TRUE]
    /\ UNCHANGED <<orders, history, payments, usedCount, procs, ops, rooms, joining, denied, now,
                   memberPoints, customerProfiles, completions,
                   sent, delivered>>

EstimateInit ==
    /\ orders = << >>
    /\ history = << >>
    /\ payments = << >>
    /\ usedCount = [c \in DOMAIN Coupons |-> 0]
    /\ procs = [p \in Procs |-> Idle]
    /\ ops = 0
    /\ rooms = [s \in Stores |-> {}]
    /\ joining = {}
    /\ denied = {}
    /\ now = 2
    /\ memberPoints = << >>
    /\ customerProfiles = SeededProfiles
    /\ completions = << >>
    /\ sent = NothingSent
    /\ delivered = {}
    /\ \E items \in {<< l >> : l \in EstimateLines}
                       \cup {<< l, m >> : l \in EstimateLines, m \in EstimateLines} :
          \E line \in 1..Len(items) :
             calc = [items |-> items, line |-> line, estimate |-> 0, estimateMore |-> 0,
                     applied |-> FALSE]

EstimateSpec == EstimateInit /\ [][EstimateCall]_vars

RECURSIVE QuantityUpTo(_, _)
QuantityUpTo(items, n) ==
    IF n = 0 THEN 0 ELSE QuantityUpTo(items, n - 1) + items[n].quantity

\* 10 + 2 x max(0, Q - 1) + 3 x A
EstimateFormula(items) ==
    LET Q == QuantityUpTo(items, Len(items))
        A == Cardinality({i \in 1..Len(items) : items[i].addons # << >>})
    IN 10 + 2 * (IF Q - 1 > 0 THEN Q - 1 ELSE 0) + 3 * A

\* C26 as stated: the estimate is 10 + 2 x max(0, Q - 1) + 3 x A, it is at
\* least 10, and adding an add-on to a line strictly increases it.
C26_EstimateAsStated ==
    calc.applied =>
       /\ calc.estimate = EstimateFormula(calc.items)
       /\ calc.estimate >= 10
       /\ calc.estimateMore > calc.estimate

\* C26 amended: the estimate is 10 + 2 x max(0, Q - 1) + 3 x A and at least
\* 10; adding an add-on to a line that has none raises it by 3, and adding one
\* to a line that already has an add-on leaves it unchanged.
C26_EstimateFormula ==
    calc.applied =>
       /\ calc.estimate = EstimateFormula(calc.items)
       /\ calc.estimate >= 10
       /\ calc.estimateMore = calc.estimate
             + (IF calc.items[calc.line].addons = << >> THEN 3 ELSE 0)

\* C26 witness: a second add-on on a line did not change the estimate.
C26_Witness ==
    /\ calc.applied
    /\ calc.items[calc.line].addons # << >>
    /\ calc.estimateMore = calc.estimate
    /\ calc.estimate > 10


-----------------------------------------------------------------------------
(* Order creation in two stores *)

\* One line of a product of the store.
StoreItems(storeId) ==
    << Line(IF storeId = "S1" THEN "P1" ELSE "P3", None, 1, << >>) >>

StoreStart(p) ==
    /\ Quiet
    /\ \/ \E user \in Users, storeId \in Stores, couponCode \in {None, "TEN", "SHIP"} :
             CreateStart(p, user, storeId, StoreItems(storeId), couponCode)
       \/ \E user \in Users, storeId \in Stores, paymentMethod \in {"CASH", "CARD"} :
             PosStart(p, user, storeId, "custA", StoreItems(storeId), paymentMethod)

StoreNext ==
    \E p \in Procs :
        \/ StoreStart(p)
        \/ CreateGenerate(p)
        \/ CreateInsert(p)
        \/ PosPayment(p)
        \/ CreateHistory(p)
        \/ CreateCoupon(p)

StoreSpec == Init /\ [][StoreNext]_vars

\* C27: order numbering is per store: a creation is never refused by the
\* unique index because of a number held by an order of another store, so a
\* creation that is refused for its number collides with an order of its own
\* store.
C27_NumbersPerStore ==
    [][\A p \in Procs :
          ( /\ procs[p].pc = "insert"
            /\ procs'[p].pc = "done"
            /\ procs'[p].code = 500 )
          => \E i \in DOMAIN orders :
                /\ orders[i].orderNumber = procs[p].orderNumber
                /\ orders[i].storeId = procs[p].storeId]_vars


-----------------------------------------------------------------------------
(* Tenant isolation of status changes *)

\* The user is neither of the tenant owning the order's store nor, where the
\* customer counts, the order's customer.
Foreign(user, id, customerCounts) ==
    /\ id \in DOMAIN orders
    /\ StoreTenant[orders[id].storeId] # user.tenantId
    /\ customerCounts => orders[id].customerId # user.id

\* C28: a status-change request (PATCH status, cancel, batch-status, socket
\* 'update-order-status') by a user of another tenant than the one owning the
\* order's store (for cancel: who is not the order's customer either) ends
\* without modifying any order or history.
C28_OnlyOwningTenant ==
    [][\A p \in Procs, user \in Users, id \in DOMAIN orders :
          ( /\ \/ /\ Foreign(user, id, FALSE)
                  /\ \/ \E status \in SocketStatuses :
                           \/ PatchFind(p, user, id, status)
                           \/ SocketUpdate(p, user, id, status)
                     \/ \E orderIds \in SUBSET DOMAIN orders, status \in SocketStatuses :
                           id \in orderIds /\ BatchFind(p, user, orderIds, status)
               \/ Foreign(user, id, TRUE) /\ CancelFind(p, user, id) )
          => /\ procs'[p].pc = "done"
             /\ UNCHANGED <<orders, history>>]_vars


-----------------------------------------------------------------------------
(* Broadcasts and rooms *)

BroadcastNext ==
    \/ \E c \in Conns, storeId \in Stores :
          \/ JoinStore(c, storeId)
          \/ JoinStoreThen(c, storeId)
          \/ LeaveStore(c, storeId)
    \/ \E c \in Conns, user \in Users, targetStores \in SUBSET Stores :
          SendBroadcast(c, user, targetStores)

BroadcastSpec == Init /\ [][BroadcastNext]_vars

\* C29: a 'system-broadcast' sent by an administrator of tenant T reaches only
\* connections of tenant T, through T's tenant room or through the room of a
\* store owned by T; it never reaches a store room of another tenant.
C29_BroadcastWithinTenant ==
    \A m \in delivered :
        /\ ConnTenant[m.to] = m.from
        /\ \/ m.room = <<"tenant", m.from>>
           \/ m.room[1] = "store" /\ StoreTenant[m.room[2]] = m.from

\* C30: leaving wins over an earlier join: a connection whose last event for a
\* store is leave-store is not in the store's room once no join-store of it
\* for that store is pending.
C30_LeaveWins ==
    \A c \in Conns, storeId \in Stores :
        (sent[<<c, storeId>>] = "leave" /\ <<c, storeId>> \notin joining)
           => c \notin rooms[storeId]

====
